---- MODULE Spec2Model ----
(***************************************************************************)
(* The aggregation and filtering layer of the railroad grade-crossing      *)
(* accident dashboard (src/app.py).  Every change of a sidebar control     *)
(* reruns the whole script: the cached Record Store is handed out again,   *)
(* the filtered view df_f is rebuilt and the selected chart's summary      *)
(* table is recomputed.                                                    *)
(*                                                                         *)
(* A nullable integer is <<>> (absent) or <<v>>; an absent string is the   *)
(* string NoneStr.  A DataFrame is the sequence of its rows.               *)
(***************************************************************************)
EXTENDS Integers, Sequences, FiniteSets, TLC

VARIABLES
    cache,              \* the frame st.cache_data keeps for load_data(DATA_PATH)
    df,                 \* the script run's frame
    year_range,         \* <<y0, y1>> of the year slider
    picked_state_labels, \* the labels picked in the multiselect
    picked_state_usps,  \* the abbreviations taken from the picked labels
    demo_chart,         \* "Choropleth", "Week-Hour Heatmap", "Weekdays", "Top States"
    metric,             \* the metric selector
    top_n,              \* <<>> (None) or <<n>>
    df_f,               \* the filtered view
    chart,              \* [kind, data]: the summary table of the chart drawn
    err                 \* "" or the exception the run or call ended with

vars == <<cache, df, year_range, picked_state_labels, picked_state_usps, demo_chart, metric, top_n,
          df_f, chart, err>>

----------------------------------------------------------------------------
(* Bounds of the model *)

\* rows of a narrow record set
MaxRows == 2
\* states (one group each) of a wide record set
MaxGroups == 6
\* states picked at once in the multiselect
MaxPicked == 2
\* slider stops kept above the lower end of a long year slider
SliderSpan == 1

----------------------------------------------------------------------------
(* Values *)

NA == << >>
NoneStr == "<NA>"
Some(v) == <<v>>
notna(x) == x # NA

weekday_order == <<"Mon", "Tue", "Wed", "Thu", "Fri", "Sat", "Sun">>
hour_cols == [j \in 1..24 |-> j - 1]
Metrics == {"Incidents", "Killed", "Injured"}
Charts == {"Choropleth", "Week-Hour Heatmap", "Weekdays", "Top States"}
TopNMenu == {5, 10, 15, 20}

Range(s) == {s[i] : i \in DOMAIN s}

FIPS_TO_USPS ==
    (1 :> "AL" @@ 2 :> "AK" @@ 4 :> "AZ" @@ 5 :> "AR" @@ 6 :> "CA" @@ 8 :> "CO" @@
     9 :> "CT" @@ 10 :> "DE" @@ 11 :> "DC" @@ 12 :> "FL" @@ 13 :> "GA" @@
     15 :> "HI" @@ 16 :> "ID" @@ 17 :> "IL" @@ 18 :> "IN" @@ 19 :> "IA" @@
     20 :> "KS" @@ 21 :> "KY" @@ 22 :> "LA" @@ 23 :> "ME" @@ 24 :> "MD" @@
     25 :> "MA" @@ 26 :> "MI" @@ 27 :> "MN" @@ 28 :> "MS" @@ 29 :> "MO" @@
     30 :> "MT" @@ 31 :> "NE" @@ 32 :> "NV" @@ 33 :> "NH" @@ 34 :> "NJ" @@
     35 :> "NM" @@ 36 :> "NY" @@ 37 :> "NC" @@ 38 :> "ND" @@ 39 :> "OH" @@
     40 :> "OK" @@ 41 :> "OR" @@ 42 :> "PA" @@ 44 :> "RI" @@ 45 :> "SC" @@
     46 :> "SD" @@ 47 :> "TN" @@ 48 :> "TX" @@ 49 :> "UT" @@ 50 :> "VT" @@
     51 :> "VA" @@ 53 :> "WA" @@ 54 :> "WV" @@ 55 :> "WI" @@ 56 :> "WY")

all_states == {FIPS_TO_USPS[c] : c \in DOMAIN FIPS_TO_USPS}

----------------------------------------------------------------------------
(* The input file: rows as read_csv and to_numeric(errors="coerce") give   *)
(* them (a cell that is no number is already absent).                      *)

RawRow(y, h, w, c, n, k, i) ==
    [Year |-> y, Hour24 |-> h, Weekday |-> w, StateCode |-> c, StateName |-> n,
     Killed |-> k, Injured |-> i]

\* Rows of the narrow record sets: every way a field can be absent or
\* unmapped occurs; a record set may hold a row twice.
NarrowRows == <<
    RawRow(Some(2019), Some(5),  "Monday",  Some(6),  "California", Some(1), Some(0)),
    RawRow(Some(2019), NA,       "Tuesday", Some(6),  "California", NA,      Some(2)),
    RawRow(Some(2020), Some(23), "Sun",     Some(48), "Texas",      Some(2), Some(1)),
    RawRow(Some(2020), Some(0),  NoneStr,   Some(48), "Texas",      NA,      NA),
    RawRow(Some(2019), Some(0),  "Funday",  Some(48), "Texas",      Some(0), Some(0)),
    RawRow(NA,         Some(5),  "Monday",  Some(6),  "California", Some(2), Some(2)),
    RawRow(Some(2020), Some(23), "Sunday",  Some(60), "American Samoa", Some(1), Some(1)),
    RawRow(Some(2019), Some(10), "Tuesday", NA,       NoneStr,      Some(1), Some(0)),
    RawRow(Some(2020), Some(5),  "Monday",  Some(6),  NoneStr,      NA,      Some(1))
>>

\* The names of the wide record sets' states, by state code.
WideCodes == <<1, 2, 4, 5, 6, 8, 9, 10, 12, 13>>
WideNames == <<"Alabama", "Alaska", "Arizona", "Arkansas", "California",
               "Colorado", "Connecticut", "Delaware", "Florida", "Georgia">>

\* State names in the order Python compares strings (groupby sorts its keys).
SortedNames == <<"Alabama", "Alaska", "American Samoa", "Arizona", "Arkansas",
                 "California", "Colorado", "Connecticut", "Delaware", "Florida",
                 "Georgia", "Texas">>
NameRank(n) == CHOOSE i \in DOMAIN SortedNames : SortedNames[i] = n

\* Narrow record sets: at most MaxRows of NarrowRows, in the pool's order
\* (no table the script builds depends on the order of the rows).
NarrowDatasets ==
    UNION {{[i \in 1..k |-> NarrowRows[ix[i]]] :
              ix \in {f \in [1..k -> DOMAIN NarrowRows] :
                        \A i \in 1..k, j \in 1..k : i < j => f[i] <= f[j]}} :
           k \in 0..MaxRows}

\* Wide record sets: one 2020 row for each of the first MaxGroups states, and
\* a second row (a 2019 Monday 5h accident with one killed) for the states in A
\* (none, the first state or the last).
WideDataset(A) ==
    LET first == [i \in 1..MaxGroups |->
                    RawRow(Some(2020), Some(i), "Friday", Some(WideCodes[i]),
                           WideNames[i], IF i % 2 = 0 THEN Some(1) ELSE NA, Some(i % 3))]
        RECURSIVE extra(_)
        extra(i) == IF i > MaxGroups THEN << >>
                    ELSE (IF i \in A
                          THEN <<RawRow(Some(2019), Some(5), "Monday", Some(WideCodes[i]),
                                        WideNames[i], Some(1), Some(0))>>
                          ELSE << >>) \o extra(i + 1)
    IN first \o extra(1)

WideDatasets == {WideDataset(A) : A \in {{}, {1}, {MaxGroups}}}

Datasets == NarrowDatasets \cup WideDatasets

----------------------------------------------------------------------------
(* load_data *)

WeekdayMapping(w) ==
    CASE w = "Monday" -> "Mon" [] w = "Tuesday" -> "Tue" [] w = "Wednesday" -> "Wed"
      [] w = "Thursday" -> "Thu" [] w = "Friday" -> "Fri" [] w = "Saturday" -> "Sat"
      [] w = "Sunday" -> "Sun" [] OTHER -> w

\* pd.Categorical(values, categories): a value outside the categories is NaN
Categorical(w, categories) == IF w \in Range(categories) THEN w ELSE NoneStr

\* FIPS_TO_USPS.get(int(x)) if pd.notna(x) else None
StateUSPS(code) ==
    IF notna(code)
    THEN (IF code[1] \in DOMAIN FIPS_TO_USPS THEN FIPS_TO_USPS[code[1]] ELSE NoneStr)
    ELSE NoneStr

load_data(raw) ==
    [i \in DOMAIN raw |->
        [Year |-> raw[i].Year, Hour24 |-> raw[i].Hour24,
         Weekday |-> Categorical(WeekdayMapping(raw[i].Weekday), weekday_order),
         StateCode |-> raw[i].StateCode, StateName |-> raw[i].StateName,
         Killed |-> raw[i].Killed, Injured |-> raw[i].Injured,
         USPS |-> StateUSPS(raw[i].StateCode)]]

----------------------------------------------------------------------------
(* pandas helpers *)

RECURSIVE SumSeq(_)
SumSeq(s) == IF s = << >> THEN 0 ELSE Head(s) + SumSeq(Tail(s))

\* faulty variant: the upper bound taken exclusive
between_exclusive(x, lo, hi) == IF x # << >> THEN <<lo <= x[1] /\ x[1] < hi>> ELSE << >>

\* Series.between(lo, hi) of a nullable integer: absent stays absent
between(x, lo, hi) == IF notna(x) THEN Some(lo <= x[1] /\ x[1] <= hi) ELSE NA

\* frame[mask]: an absent mask entry selects nothing
YearMask(d, y0, y1) == SelectSeq(d, LAMBDA r : between(r.Year, y0, y1) = Some(TRUE))

\* frame[frame["State USPS"].isin(picked)]
IsinMask(d, picked) == SelectSeq(d, LAMBDA r : r.USPS # NoneStr /\ r.USPS \in picked)

\* to_numeric(col, errors="coerce").fillna(0)
fillna0(x) == IF notna(x) THEN x[1] ELSE 0

\* the column a metric sums
MetricColumn(r, m) == IF m = "Killed" THEN r.Killed ELSE r.Injured

\* GroupBy.sum(min_count=1) of one group's column: absent when the group holds
\* no present value
SumMinCount1(vals) ==
    LET present == SelectSeq(vals, LAMBDA x : notna(x))
    IN  IF Len(present) < 1 THEN NA
        ELSE Some(SumSeq([i \in DOMAIN present |-> present[i][1]]))

\* to_numeric(value, errors="coerce").fillna(0).round().astype("int64")
ValueToInt64(x) == IF notna(x) THEN x[1] ELSE 0

----------------------------------------------------------------------------
(* make_state_metric *)

StateGroup(base, s) == SelectSeq(base, LAMBDA r : r.USPS = s)

\* faulty variant: the absent key kept as a group (dropna=False)
StateKeys_keepna(base) == {base[i].USPS : i \in DOMAIN base}

\* groupby("State USPS") keys: the abbreviations present (absent keys dropped)
StateKeys(base) == {base[i].USPS : i \in DOMAIN base} \ {NoneStr}

make_state_metric(df_all, yr, m) ==
    LET base == YearMask(df_all, yr[1], yr[2])
        keys == StateKeys(base)
        col(s, mm) == LET g == StateGroup(base, s)
                      IN  [i \in DOMAIN g |-> MetricColumn(g[i], mm)]
    IN  IF m = "Incidents"
        THEN [exc |-> "", out |-> [s \in keys |-> ValueToInt64(Some(Len(StateGroup(base, s))))]]
        ELSE IF m = "Killed"
        THEN [exc |-> "", out |-> [s \in keys |-> ValueToInt64(SumMinCount1(col(s, "Killed")))]]
        ELSE IF m = "Injured"
        THEN [exc |-> "", out |-> [s \in keys |-> ValueToInt64(SumMinCount1(col(s, "Injured")))]]
        ELSE [exc |-> "ValueError", out |-> << >>]

----------------------------------------------------------------------------
(* metric_series *)

\* one row's entry of the series
metric_value(r, m) ==
    IF m = "Incidents" THEN 1
    ELSE IF m = "Killed" THEN fillna0(r.Killed)
    ELSE IF m = "Injured" THEN fillna0(r.Injured)
    ELSE 1

metric_series(d, m) == [i \in DOMAIN d |-> metric_value(d[i], m)]

----------------------------------------------------------------------------
(* Grouping on the Weekday column *)

\* groupby(..., observed=<default>): with the default (False) a categorical
\* grouper yields every category of the dtype, observed in the rows or not
GroupbyObserved == FALSE

ObservedWeekdays(tmp) == {tmp[i].Weekday : i \in DOMAIN tmp} \ {NoneStr}

\* faulty variant: only the observed categories (observed=True)
WeekdayKeys_observed(tmp) == ObservedWeekdays(tmp)

WeekdayKeys(tmp) ==
    IF GroupbyObserved THEN ObservedWeekdays(tmp) ELSE Range(weekday_order)

\* dropna(subset=[...]) on the columns named
DropnaWeekday(d) == SelectSeq(d, LAMBDA r : r.Weekday # NoneStr)
DropnaWeekdayHour(d) == SelectSeq(d, LAMBDA r : r.Weekday # NoneStr /\ notna(r.Hour24))

----------------------------------------------------------------------------
(* plot_weekday_hour_heatmap: the matrix it draws *)

\* the frame with index idx and columns cols holding cell[<<weekday, hour>>]
HeatFrame(cell) ==
    [index |-> weekday_order, columns |-> hour_cols,
     values |-> [i \in DOMAIN weekday_order |->
                   [j \in DOMAIN hour_cols |-> cell[<<weekday_order[i], hour_cols[j]>>]]]]

HeatLabels == Range(weekday_order) \X Range(hour_cols)

\* faulty variant: an empty input gives an empty frame
ZeroHeat_empty == [index |-> << >>, columns |-> << >>, values |-> << >>]

\* pd.DataFrame(0, index=idx, columns=cols)
ZeroHeat == HeatFrame([k \in HeatLabels |-> 0])

\* faulty variant: Incidents summed from the Killed column
heat_val_killed(r, m) ==
    IF m = "Injured" THEN (IF r.Injured # << >> THEN r.Injured[1] ELSE 0)
    ELSE (IF r.Killed # << >> THEN r.Killed[1] ELSE 0)

\* tmp["_val"] of one row
heat_val(r, m) ==
    IF m = "Incidents" THEN 1
    ELSE IF m = "Killed" THEN fillna0(r.Killed)
    ELSE IF m = "Injured" THEN fillna0(r.Injured)
    ELSE 1

\* .unstack(fill_value=0).reindex(index=idx, columns=cols, fill_value=0) of the
\* grouped sums: a label the unstacked frame lacks is filled with 0
UnstackReindex(total) ==
    LET keys == DOMAIN total
        uindex == {k[1] : k \in keys}
        ucols == {k[2] : k \in keys}
        unstacked == [k \in uindex \X ucols |-> IF k \in keys THEN total[k] ELSE 0]
    IN  HeatFrame([k \in HeatLabels |->
                     IF k[1] \in uindex /\ k[2] \in ucols THEN unstacked[k] ELSE 0])

plot_weekday_hour_heatmap(d, m) ==
    IF d = << >>
    THEN ZeroHeat
    ELSE LET tmp == DropnaWeekdayHour(d)
             hours == {tmp[i].Hour24[1] : i \in DOMAIN tmp}
             keys == WeekdayKeys(tmp) \X hours
             total == [k \in keys |->
                 LET g == SelectSeq(tmp, LAMBDA r : r.Weekday = k[1] /\ r.Hour24[1] = k[2])
                 IN  SumSeq([i \in DOMAIN g |-> heat_val(g[i], m)])]
         IN  UnstackReindex(total)

----------------------------------------------------------------------------
(* The Weekdays chart: wk *)

\* .reindex([...]) with no fill value: a label the grouped sums lack is NaN
ReindexWeekdays(total) ==
    [index |-> weekday_order,
     values |-> [i \in DOMAIN weekday_order |->
                   IF weekday_order[i] \in DOMAIN total
                   THEN Some(total[weekday_order[i]]) ELSE NA]]

weekdays_chart(dff, m) ==
    LET tmp == DropnaWeekday(dff)
        val == metric_series(tmp, m)
        total == [w \in WeekdayKeys(tmp) |->
            LET ix == {i \in DOMAIN tmp : tmp[i].Weekday = w}
                RECURSIVE upto(_)
                upto(i) == IF i = 0 THEN 0
                           ELSE (IF i \in ix THEN val[i] ELSE 0) + upto(i - 1)
            IN  upto(Len(tmp))]
    IN  ReindexWeekdays(total)

----------------------------------------------------------------------------
(* The Top States chart: top *)

\* The orders in which sort_values (kind="quicksort") may leave equal totals:
\* the sort is not stable, so the model takes both extreme orders.
TieOrders == {"first", "last"}

\* faulty variant: sorted ascending
RECURSIVE sort_values_asc(_, _)
sort_values_asc(s, tie) ==
    IF s = << >> THEN << >>
    ELSE LET least == {i \in DOMAIN s : \A j \in DOMAIN s : s[i][2] <= s[j][2]}
             pick == CHOOSE i \in least : \A j \in least : i <= j
             rest == [k \in 1..(Len(s) - 1) |-> IF k < pick THEN s[k] ELSE s[k + 1]]
         IN  <<s[pick]>> \o sort_values_asc(rest, tie)

\* sort_values(ascending=False) of a sequence of <<name, total>>
RECURSIVE sort_values_desc(_, _)
sort_values_desc(s, tie) ==
    IF s = << >> THEN << >>
    ELSE LET best == {i \in DOMAIN s : \A j \in DOMAIN s : s[j][2] <= s[i][2]}
             pick == IF tie = "first"
                     THEN CHOOSE i \in best : \A j \in best : i <= j
                     ELSE CHOOSE i \in best : \A j \in best : j <= i
             rest == [k \in 1..(Len(s) - 1) |-> IF k < pick THEN s[k] ELSE s[k + 1]]
         IN  <<s[pick]>> \o sort_values_desc(rest, tie)

\* .head(n)
head(s, n) == IF Len(s) <= n THEN s ELSE SubSeq(s, 1, n)

\* groupby("State Name") keys in sorted order (absent names dropped)
NameKeys(base) ==
    LET names == {base[i].StateName : i \in DOMAIN base} \ {NoneStr}
    IN  SelectSeq(SortedNames, LAMBDA n : n \in names)

top_states(d, yr, picked, m, n, tie) ==
    LET base0 == YearMask(d, yr[1], yr[2])
        base == IF picked # {} THEN IsinMask(base0, picked) ELSE base0
        val == metric_series(base, m)
        keys == NameKeys(base)
        total(name) ==
            LET RECURSIVE upto(_)
                upto(i) == IF i = 0 THEN 0
                           ELSE (IF base[i].StateName = name THEN val[i] ELSE 0) + upto(i - 1)
            IN  upto(Len(base))
        sums == [k \in DOMAIN keys |-> <<keys[k], total(keys[k])>>]
    IN  head(sort_values_desc(sums, tie), n)

----------------------------------------------------------------------------
(* choropleth_selected_highlight: the merged frame m *)

\* faulty variant: the selected states blanked instead of the others
HighlightSelected_inverted(out, picked) ==
    [s \in all_states |->
        IF picked # {} /\ s \in picked THEN << >>
        ELSE IF s \in DOMAIN out THEN <<out[s]>> ELSE << >>]

\* all_states.merge(metric_df, how="left"), then the unselected states blanked
HighlightSelected(out, picked) ==
    [s \in all_states |->
        IF picked # {} /\ s \notin picked THEN NA
        ELSE IF s \in DOMAIN out THEN Some(out[s]) ELSE NA]

choropleth_selected_highlight(df_all, picked, yr, m) ==
    LET res == make_state_metric(df_all, yr, m)
    IN  IF res.exc # "" THEN [exc |-> res.exc, metric_df |-> << >>, m |-> << >>]
        ELSE [exc |-> "", metric_df |-> res.out, m |-> HighlightSelected(res.out, picked)]

----------------------------------------------------------------------------
(* The script: sidebar controls *)

Years(d) == {d[i].Year[1] : i \in {j \in DOMAIN d : notna(d[j].Year)}}
Min(S) == CHOOSE x \in S : \A y \in S : x <= y
Max(S) == CHOOSE x \in S : \A y \in S : y <= x

year_min(d) == IF Years(d) # {} THEN Min(Years(d)) ELSE 2000
year_max(d) == IF Years(d) # {} THEN Max(Years(d)) ELSE 2025

\* The slider's stops: all of a short slider, the lower stops and the upper
\* end of a long one.
SliderStops(d) ==
    {y \in year_min(d)..year_max(d) : y <= year_min(d) + SliderSpan \/ y = year_max(d)}

\* a label "State Name (DE)", as its pieces
Label(name, usps) == <<name, " (", usps, ")">>

\* state_labels: df[["State Name", "State USPS"]].dropna().drop_duplicates()
state_labels(d) ==
    {Label(d[i].StateName, d[i].USPS) :
        i \in {j \in DOMAIN d : d[j].StateName # NoneStr /\ d[j].USPS # NoneStr}}

\* s.split("(")[-1].replace(")", "").strip(): what follows the last "(",
\* without the ")"
LabelUsps(label) ==
    LET opens == {i \in DOMAIN label : label[i] = " ("}
        last == Max(opens)
        after == SubSeq(label, last + 1, Len(label))
        kept == SelectSeq(after, LAMBDA t : t # ")")
    IN  kept[1]

PickedUsps(labels) == {LabelUsps(l) : l \in labels}

\* df_f: the year filter, then the state filter when states are picked
FilterStage(d, yr, picked) ==
    LET byYear == YearMask(d, yr[1], yr[2])
    IN  IF picked # {} THEN IsinMask(byYear, picked) ELSE byYear

\* faulty variant: the filter applied to df in place
df_after_run_inplace(loaded, dff) == dff

\* the frame df names when the run ends: every filter builds a new frame
\* (.copy(), boolean indexing), so it is the frame load_data returned
df_after_run(loaded, dff) == loaded

\* the main chart area
MainChart(d, dff, yr, picked, c, m, n, tie) ==
    IF c = "Choropleth"
    THEN LET r == choropleth_selected_highlight(d, picked, yr, m)
         IN  [kind |-> c, data |-> [metric_df |-> r.metric_df, m |-> r.m], exc |-> r.exc]
    ELSE IF c = "Week-Hour Heatmap"
    THEN [kind |-> c, data |-> plot_weekday_hour_heatmap(dff, m), exc |-> ""]
    ELSE IF c = "Weekdays"
    THEN [kind |-> c, data |-> weekdays_chart(dff, m), exc |-> ""]
    ELSE [kind |-> c, data |-> top_states(d, yr, picked, m, n[1], tie), exc |-> ""]

\* One run of the script with the controls as given.
Rerun(yr, labels, c, m, n) ==
    LET loaded == cache
        picked == PickedUsps(labels)
        dff == FilterStage(loaded, yr, picked)
    IN  /\ cache' = cache
        /\ df' = df_after_run(loaded, dff)
        /\ year_range' = yr
        /\ picked_state_labels' = labels
        /\ picked_state_usps' = picked
        /\ demo_chart' = c
        /\ metric' = m
        /\ top_n' = n
        /\ df_f' = dff
        /\ \E tie \in (IF c = "Top States" THEN TieOrders ELSE {"first"}) :
              LET ch == MainChart(loaded, dff, yr, picked, c, m, n, tie)
              IN  /\ chart' = [kind |-> ch.kind, data |-> ch.data]
                  /\ err' = ch.exc

Init ==
    /\ \E raw \in Datasets : cache = load_data(raw)
    /\ df = cache
    /\ year_range = <<year_min(cache), year_max(cache)>>
    /\ picked_state_labels = {}
    /\ picked_state_usps = {}
    /\ demo_chart = "Choropleth"
    /\ metric = "Incidents"
    /\ top_n = NA
    /\ df_f = FilterStage(cache, year_range, {})
    /\ LET ch == MainChart(cache, df_f, year_range, {}, "Choropleth", "Incidents", NA, "first")
       IN  /\ chart = [kind |-> ch.kind, data |-> ch.data]
           /\ err = ch.exc

\* the year slider is moved
SetYearRange ==
    \E y0 \in SliderStops(cache), y1 \in SliderStops(cache) :
        /\ y0 <= y1
        /\ <<y0, y1>> # year_range
        /\ Rerun(<<y0, y1>>, picked_state_labels, demo_chart, metric, top_n)

\* a state is added to the multiselect
PickState ==
    \E l \in state_labels(cache) \ picked_state_labels :
        /\ Cardinality(picked_state_labels) < MaxPicked
        /\ Rerun(year_range, picked_state_labels \cup {l}, demo_chart, metric, top_n)

\* a state is removed from the multiselect
UnpickState ==
    \E l \in picked_state_labels :
        Rerun(year_range, picked_state_labels \ {l}, demo_chart, metric, top_n)

\* "Which main chart?": the Top N selectbox exists only for Top States and
\* starts at its first option
SetChart ==
    \E c \in Charts :
        /\ c # demo_chart
        /\ Rerun(year_range, picked_state_labels, c, metric,
                 IF c = "Top States" THEN Some(5) ELSE NA)

SetMetric ==
    \E m \in Metrics :
        /\ m # metric
        /\ Rerun(year_range, picked_state_labels, demo_chart, m, top_n)

SetTopN ==
    \E n \in TopNMenu :
        /\ demo_chart = "Top States"
        /\ Some(n) # top_n
        /\ Rerun(year_range, picked_state_labels, demo_chart, metric, Some(n))

Next == SetYearRange \/ PickState \/ UnpickState \/ SetChart \/ SetMetric \/ SetTopN

Spec == Init /\ [][Next]_vars

----------------------------------------------------------------------------
(* The functions called directly, with any metric selector *)

MetricInputs == Metrics \cup {"Count", ""}

CallResult(kind, m, data, exc) ==
    /\ chart' = [kind |-> kind, data |-> data]
    /\ err' = exc
    /\ metric' = m
    /\ UNCHANGED <<cache, df, year_range, picked_state_labels, picked_state_usps,
                   demo_chart, top_n, df_f>>

InitCall ==
    /\ \E raw \in NarrowDatasets : cache = load_data(raw)
    /\ df = cache
    /\ year_range = <<year_min(cache), year_max(cache)>>
    /\ picked_state_labels = {}
    /\ picked_state_usps = {}
    /\ demo_chart = "Choropleth"
    /\ metric = "Incidents"
    /\ top_n = NA
    /\ df_f = FilterStage(cache, year_range, {})
    /\ chart = [kind |-> "none", data |-> << >>]
    /\ err = ""

CallMakeStateMetric ==
    \E m \in MetricInputs :
        LET r == make_state_metric(df, year_range, m)
        IN  CallResult("make_state_metric", m, r.out, r.exc)

CallMetricSeries ==
    \E m \in MetricInputs :
        CallResult("metric_series", m, metric_series(df_f, m), "")

CallPlotHeatmap ==
    \E m \in MetricInputs :
        CallResult("plot_weekday_hour_heatmap", m, plot_weekday_hour_heatmap(df_f, m), "")

NextCall == CallMakeStateMetric \/ CallMetricSeries \/ CallPlotHeatmap

SpecCall == InitCall /\ [][NextCall]_vars

----------------------------------------------------------------------------
(* What the claims speak of, stated on the records themselves *)

YearIn(r) == notna(r.Year) /\ year_range[1] <= r.Year[1] /\ r.Year[1] <= year_range[2]
StatePasses(r) == picked_state_usps = {} \/ r.USPS \in picked_state_usps
Passes(r) == YearIn(r) /\ StatePasses(r)

\* a record's contribution under the metric: 1, or the count with absent as 0
Contribution(r) ==
    IF metric = "Incidents" THEN 1
    ELSE IF metric = "Killed" THEN (IF r.Killed = NA THEN 0 ELSE r.Killed[1])
    ELSE (IF r.Injured = NA THEN 0 ELSE r.Injured[1])

\* the contributions of the records of d at the positions in ix, summed
RECURSIVE TotalUpTo(_, _, _)
TotalUpTo(d, ix, i) ==
    IF i = 0 THEN 0
    ELSE (IF i \in ix THEN Contribution(d[i]) ELSE 0) + TotalUpTo(d, ix, i - 1)
Total(d, ix) == TotalUpTo(d, ix, Len(d))

\* the positions of d whose record passes the filters, equals r, ...
PassingIn(d) == {i \in DOMAIN d : Passes(d[i])}
EqualIn(d, r) == {i \in DOMAIN d : d[i] = r}
CellIn(d, w, h) == {i \in DOMAIN d : d[i].Weekday = w /\ d[i].Hour24 = <<h>>}
DayIn(d, w) == {i \in DOMAIN d : d[i].Weekday = w}
StateIn(d, s) == {i \in DOMAIN d : d[i].USPS = s /\ YearIn(d[i])}
NameIn(d, n) == {i \in DOMAIN d : d[i].StateName = n}
CompleteIn(d) == {i \in DOMAIN d : d[i].Weekday # NoneStr /\ d[i].Hour24 # NA}

Abbreviations == all_states

----------------------------------------------------------------------------
(* C1: the filtered view holds exactly the records whose year is present   *)
(* and within the inclusive range and, when states are picked, whose       *)
(* abbreviation is picked; each as often as the Record Store holds it, in  *)
(* the store's order.  No record with an absent year is in it.             *)
C1_FilterExact ==
    /\ \A i \in DOMAIN df_f : Passes(df_f[i]) /\ df_f[i].Year # NA
    /\ \A r \in Range(df) :
          Cardinality(EqualIn(df_f, r))
              = IF Passes(r) THEN Cardinality(EqualIn(df, r)) ELSE 0
    /\ Len(df_f) = Cardinality(PassingIn(df))

\* states are picked, a record passes, and a record with an absent year is dropped
C1_Witness ==
    /\ picked_state_usps # {}
    /\ df_f # << >>
    /\ \E i \in DOMAIN df : df[i].Year = NA /\ df[i].USPS \in picked_state_usps

----------------------------------------------------------------------------
(* C2: a metric selector other than Incidents, Killed, Injured fails with  *)
(* an error at every call site (make_state_metric, metric_series,          *)
(* plot_weekday_hour_heatmap).                                             *)
C2_UnknownMetricFails ==
    (chart.kind # "none" /\ metric \notin Metrics) => err # ""

----------------------------------------------------------------------------
(* C3: the Weekday x Hour matrix has the rows Mon..Sun and the columns     *)
(* 0..23 in order, integer cells, and 0 wherever no record contributes.    *)
C3_HeatDense ==
    chart.kind = "Week-Hour Heatmap" =>
        /\ chart.data.index = <<"Mon", "Tue", "Wed", "Thu", "Fri", "Sat", "Sun">>
        /\ chart.data.columns = [j \in 1..24 |-> j - 1]
        /\ DOMAIN chart.data.values = 1..7
        /\ \A i \in 1..7 :
              /\ DOMAIN chart.data.values[i] = 1..24
              /\ \A j \in 1..24 :
                    /\ chart.data.values[i][j] \in Int
                    /\ CellIn(df_f, chart.data.index[i], chart.data.columns[j]) = {}
                          => chart.data.values[i][j] = 0

\* a non-empty view in which every record lacks its weekday or its hour
C3_Witness ==
    /\ chart.kind = "Week-Hour Heatmap"
    /\ df_f # << >>
    /\ \A i \in DOMAIN df_f : df_f[i].Weekday = NoneStr \/ df_f[i].Hour24 = NA

----------------------------------------------------------------------------
(* C4: with metric Incidents the cells of the matrix sum to the number of  *)
(* filtered records that have both weekday and hour.                       *)
HeatSum(values) ==
    SumSeq([i \in 1..7 |-> SumSeq(values[i])])

C4_HeatIncidentsSum ==
    (chart.kind = "Week-Hour Heatmap" /\ metric = "Incidents") =>
        HeatSum(chart.data.values) = Cardinality(CompleteIn(df_f))

\* two records counted, one record dropped for a missing field
C4_Witness ==
    /\ chart.kind = "Week-Hour Heatmap"
    /\ metric = "Incidents"
    /\ Cardinality(CompleteIn(df_f)) >= 1
    /\ Cardinality(CompleteIn(df_f)) < Len(df_f)

----------------------------------------------------------------------------
(* C5: the Weekdays series has the 7 entries Mon..Sun in order, none of    *)
(* them missing, and 0 for a weekday no record contributes to.             *)
C5_WeekdaysDense ==
    chart.kind = "Weekdays" =>
        /\ chart.data.index = <<"Mon", "Tue", "Wed", "Thu", "Fri", "Sat", "Sun">>
        /\ DOMAIN chart.data.values = 1..7
        /\ \A i \in 1..7 :
              LET onDay == DayIn(df_f, chart.data.index[i])
              IN  /\ chart.data.values[i] # NA
                  /\ chart.data.values[i] = <<Total(df_f, onDay)>>
                  /\ onDay = {} => chart.data.values[i] = <<0>>

\* some weekday has records and another has none
C5_Witness ==
    /\ chart.kind = "Weekdays"
    /\ \E i \in DOMAIN df_f : df_f[i].Weekday # NoneStr
    /\ \E i \in 1..7 : \A k \in DOMAIN df_f : df_f[k].Weekday # weekday_order[i]

----------------------------------------------------------------------------
(* C6: make_state_metric has a row for an abbreviation exactly when a      *)
(* record with that abbreviation has its year in the range; records with   *)
(* no abbreviation give no row.                                            *)
C6_StateRowsIff ==
    chart.kind = "Choropleth" =>
        /\ NoneStr \notin DOMAIN chart.data.metric_df
        /\ \A s \in Abbreviations :
              (s \in DOMAIN chart.data.metric_df)
                  <=> (\E i \in DOMAIN df : df[i].USPS = s /\ YearIn(df[i]))
        /\ DOMAIN chart.data.metric_df \subseteq Abbreviations

\* one state has a row, another state has records but none in the range
C6_Witness ==
    /\ chart.kind = "Choropleth"
    /\ DOMAIN chart.data.metric_df # {}
    /\ \E i \in DOMAIN df :
          /\ df[i].USPS # NoneStr /\ df[i].USPS \notin DOMAIN chart.data.metric_df
          /\ df[i].Year # NA

----------------------------------------------------------------------------
(* C7: the choropleth value of a picked state (of any state when none is   *)
(* picked) is the state's total over all records of the year range; the    *)
(* states not picked hold the no-data value.                               *)
StateTotal(s) ==
    IF StateIn(df, s) = {} THEN NA ELSE <<Total(df, StateIn(df, s))>>

C7_ChoroplethIndependent ==
    chart.kind = "Choropleth" =>
        \A s \in Abbreviations :
            IF picked_state_usps = {} \/ s \in picked_state_usps
            THEN chart.data.m[s] = StateTotal(s)
            ELSE chart.data.m[s] = NA

\* a picked state shows its total while a state with records is blanked
C7_Witness ==
    /\ chart.kind = "Choropleth"
    /\ \E s \in picked_state_usps : chart.data.m[s] # NA
    /\ \E s \in Abbreviations \ picked_state_usps : StateTotal(s) # NA

----------------------------------------------------------------------------
(* C8: the Top-N output has min(n, number of state-name groups of the      *)
(* filtered records) entries, each a group with its total, the totals are  *)
(* non-increasing, and no group left out has a greater total than one in.  *)
FilteredNames == {df_f[i].StateName : i \in DOMAIN df_f} \ {NoneStr}

NameTotal(name) == Total(df_f, NameIn(df_f, name))

C8_TopN ==
    chart.kind = "Top States" =>
        LET top == chart.data
            n == top_n[1]
            G == Cardinality(FilteredNames)
            shown == {top[i][1] : i \in DOMAIN top}
        IN  /\ Len(top) = IF n <= G THEN n ELSE G
            /\ Cardinality(shown) = Len(top)
            /\ \A i \in DOMAIN top :
                  top[i][1] \in FilteredNames /\ top[i][2] = NameTotal(top[i][1])
            /\ \A i \in DOMAIN top : \A j \in DOMAIN top : i < j => top[i][2] >= top[j][2]
            /\ \A g \in FilteredNames \ shown :
                  \A i \in DOMAIN top : NameTotal(g) <= top[i][2]

\* more groups than n, with different totals among them
C8_Witness ==
    /\ chart.kind = "Top States"
    /\ Cardinality(FilteredNames) > top_n[1]
    /\ \E g \in FilteredNames : \E h \in FilteredNames : NameTotal(g) < NameTotal(h)
    /\ picked_state_usps = {}

----------------------------------------------------------------------------
----------------------------------------------------------------------------
(* C10: with metric Killed or Injured, a state whose records in the year   *)
(* range all have an absent count is not reported with the value 0.        *)
C10_AllAbsentNotZero ==
    (chart.kind = "Choropleth" /\ metric \in {"Killed", "Injured"}) =>
        \A s \in DOMAIN chart.data.metric_df :
            LET counted == {i \in StateIn(df, s) :
                              (IF metric = "Killed" THEN df[i].Killed ELSE df[i].Injured) # NA}
            IN  counted = {} => chart.data.metric_df[s] # 0

====
